---- MODULE Spec2Model ----
(***************************************************************************)
(* bsondump: a streaming BSON record reader (src/src/iter.rs), the size    *)
(* accountant CountBytes (src/src/bsondump.rs) and the output dispatcher   *)
(* with its JSON and debug renderers (src/src/lib.rs): specification Spec. *)
(* The reader and the dispatcher that src/src/bsondump.rs holds itself are *)
(* specification SpecBsondump.                                             *)
(*                                                                         *)
(* Bytes are integers 0..255, byte strings are sequences of bytes.  A      *)
(* usize is 64 bits wide and is kept as four 16-bit limbs, least           *)
(* significant first, since a sign-extended negative i32 does not fit the  *)
(* integers of the model checker.  The sink accepts every write and the    *)
(* flush; the source may fail in any read.                                 *)
(***************************************************************************)
EXTENDS Integers, Sequences, FiniteSets

\* The longest run of whole records that an input stream starts with.
MaxDocs == 3

MAX_BSON_SIZE == (16 * 1024 * 1024) + (16 * 1024)
MIN_BSON_SIZE == 5

RECURSIVE Concat(_)
Concat(ss) == IF ss = <<>> THEN <<>> ELSE Head(ss) \o Concat(Tail(ss))

(***************************************************************************)
(* Integer conversions.                                                    *)
(***************************************************************************)

\* i32::from_le_bytes on the four bytes of d that start at index i.
FromLeBytes(d, i) ==
    d[i] + 256 * d[i + 1] + 65536 * d[i + 2]
      + 16777216 * (IF d[i + 3] >= 128 THEN d[i + 3] - 256 ELSE d[i + 3])

\* `as usize` applied to an i32: sign extension to 64 bits.
AsUsize(n) ==
    IF n >= 0
    THEN <<n % 65536, n \div 65536, 0, 0>>
    ELSE <<n % 65536, (n \div 65536) % 65536, 65535, 65535>>

\* a < b on usize values.
UsizeLess(a, b) ==
    \E k \in 1..4 : a[k] < b[k] /\ \A j \in (k + 1)..4 : a[j] = b[j]

\* usize::to_string: the decimal digits of a small index, as ASCII bytes.
RECURSIVE to_string(_)
to_string(i) ==
    IF i < 10 THEN <<48 + i>> ELSE to_string(i \div 10) \o <<48 + (i % 10)>>

(***************************************************************************)
(* The BSON codec, as far as the program calls it: buffer validation       *)
(* (RawDocumentBuf::from_bytes), the raw element iterator of a document or *)
(* array, and the deep decode bson::to_bson.                               *)
(***************************************************************************)

\* A decoded RawBsonRef: its element type, and up to two byte strings.
Val(t, a, b) == [type |-> t, a |-> a, b |-> b]
NoVal == Val(0, <<>>, <<>>)
Bad == [ok |-> FALSE, val |-> NoVal, size |-> 0]
Good(v, n) == [ok |-> TRUE, val |-> v, size |-> n]

ElementTypes == (1..19) \cup {127, 255}

\* RawDocument::from_bytes on the bytes d[i .. i+n-1].
ValidDocAt(d, i, n) ==
    /\ n >= 5
    /\ i + n - 1 <= Len(d)
    /\ FromLeBytes(d, i) = n
    /\ d[i + n - 1] = 0

from_bytes(d) == Len(d) >= 5 /\ ValidDocAt(d, 1, Len(d))

\* The length of the null-terminated string that starts at index i, or -1.
CStrLen(d, i) ==
    IF \E j \in i..Len(d) : d[j] = 0
    THEN (CHOOSE j \in i..Len(d) : d[j] = 0 /\ \A k \in i..(j - 1) : d[k] # 0) - i
    ELSE -1

\* Every input string of the model is ASCII; other bytes are rejected.
IsUtf8(s) == \A k \in 1..Len(s) : s[k] < 128

\* A length-prefixed string at index i: [ok, str, size].
ReadLenEncoded(d, i) ==
    IF i + 3 > Len(d) THEN [ok |-> FALSE, str |-> <<>>, size |-> 0]
    ELSE LET n == FromLeBytes(d, i)
             end == i + 4 + n - 1
         IN  IF n < 1 \/ end > Len(d) THEN [ok |-> FALSE, str |-> <<>>, size |-> 0]
             ELSE IF d[end] # 0 \/ ~IsUtf8(SubSeq(d, i + 4, end - 1))
                  THEN [ok |-> FALSE, str |-> <<>>, size |-> 0]
                  ELSE [ok |-> TRUE, str |-> SubSeq(d, i + 4, end - 1), size |-> 4 + n]

FixedSize(t) ==
    CASE t \in {1, 9, 17, 18} -> 8
      [] t = 16 -> 4
      [] t = 7 -> 12
      [] t = 19 -> 16
      [] t = 8 -> 1
      [] OTHER -> 0

\* The value of element type t whose bytes start at index i of d.
ParseValue(d, t, i) ==
    CASE t \in {1, 7, 9, 16, 17, 18, 19, 6, 10, 127, 255} ->
           IF i + FixedSize(t) - 1 > Len(d) THEN Bad
           ELSE Good(Val(t, SubSeq(d, i, i + FixedSize(t) - 1), <<>>), FixedSize(t))
      [] t = 8 ->
           IF i > Len(d) \/ d[i] > 1 THEN Bad
           ELSE Good(Val(t, <<d[i]>>, <<>>), 1)
      [] t \in {2, 13, 14} ->
           LET s == ReadLenEncoded(d, i)
           IN  IF s.ok THEN Good(Val(t, s.str, <<>>), s.size) ELSE Bad
      [] t \in {3, 4} ->
           IF i + 3 > Len(d) THEN Bad
           ELSE LET n == FromLeBytes(d, i)
                IN  IF ValidDocAt(d, i, n)
                    THEN Good(Val(t, SubSeq(d, i, i + n - 1), <<>>), n)
                    ELSE Bad
      [] t = 5 ->
           IF i + 3 > Len(d) THEN Bad
           ELSE LET n == FromLeBytes(d, i)
                    start == i + 5
                IN  IF n < 0 \/ start + n - 1 > Len(d) THEN Bad
                    ELSE IF d[i + 4] = 2
                         THEN IF n < 4 THEN Bad
                              ELSE IF FromLeBytes(d, start) + 4 # n THEN Bad
                              ELSE Good(Val(t, SubSeq(d, start + 4, start + n - 1),
                                            <<d[i + 4]>>), 5 + n)
                         ELSE Good(Val(t, SubSeq(d, start, start + n - 1),
                                       <<d[i + 4]>>), 5 + n)
      [] t = 11 ->
           LET p == CStrLen(d, i)
           IN  IF p < 0 THEN Bad
               ELSE LET o == CStrLen(d, i + p + 1)
                    IN  IF o < 0 THEN Bad
                        ELSE IF ~IsUtf8(SubSeq(d, i, i + p + o)) THEN Bad
                        ELSE Good(Val(t, SubSeq(d, i, i + p - 1),
                                      SubSeq(d, i + p + 1, i + p + o)), p + o + 2)
      [] t = 12 ->
           LET s == ReadLenEncoded(d, i)
           IN  IF ~s.ok \/ i + s.size + 11 > Len(d) THEN Bad
               ELSE Good(Val(t, s.str, SubSeq(d, i + s.size, i + s.size + 11)),
                         s.size + 12)
      [] t = 15 ->
           IF i + 3 > Len(d) THEN Bad
           ELSE LET n == FromLeBytes(d, i)
                IN  IF n < 14 \/ i + n - 1 > Len(d) THEN Bad
                    ELSE LET slice == SubSeq(d, i, i + n - 1)
                             s == ReadLenEncoded(slice, 5)
                         IN  IF ~s.ok THEN Bad
                             ELSE IF ~ValidDocAt(slice, 5 + s.size, n - 4 - s.size) THEN Bad
                             ELSE Good(Val(t, s.str, SubSeq(slice, 5 + s.size, n)), n)
      [] OTHER -> Bad

Item(ok, name, val) == [ok |-> ok, name |-> name, val |-> val]

\* The raw iterator of the document d from the element at index i on: the
\* sequence of its items, the last of which may be an error.
RECURSIVE IterFrom(_, _)
IterFrom(d, i) ==
    IF i = Len(d) THEN IF d[i] = 0 THEN <<>> ELSE <<Item(FALSE, <<>>, NoVal)>>
    ELSE IF i > Len(d) THEN <<Item(FALSE, <<>>, NoVal)>>
    ELSE LET k == CStrLen(d, i + 1)
         IN  IF k < 0 \/ d[i] \notin ElementTypes \/ ~IsUtf8(SubSeq(d, i + 1, i + k))
             THEN <<Item(FALSE, <<>>, NoVal)>>
             ELSE LET v == ParseValue(d, d[i], i + k + 2)
                  IN  IF ~v.ok THEN <<Item(FALSE, <<>>, NoVal)>>
                      ELSE <<Item(TRUE, SubSeq(d, i + 1, i + k), v.val)>>
                             \o IterFrom(d, i + k + 2 + v.size)

\* `for element in raw_document`: the items of a validated document.
RawIter(d) == IterFrom(d, 5)

\* bson::to_bson of a validated document: the decoded fields at every depth,
\* or an error when an element at any depth fails to decode.
RECURSIVE DecodeItems(_)
DecodeItems(items) ==
    IF items = <<>> THEN [ok |-> TRUE, fields |-> <<>>]
    ELSE LET it == Head(items)
         IN  IF ~it.ok THEN [ok |-> FALSE, fields |-> <<>>]
             ELSE LET sub == IF it.val.type \in {3, 4}
                             THEN DecodeItems(RawIter(it.val.a))
                             ELSE IF it.val.type = 15
                                  THEN DecodeItems(RawIter(it.val.b))
                                  ELSE [ok |-> TRUE, fields |-> <<>>]
                      rest == DecodeItems(Tail(items))
                  IN  IF ~sub.ok \/ ~rest.ok THEN [ok |-> FALSE, fields |-> <<>>]
                      ELSE [ok |-> TRUE,
                            fields |-> <<[name |-> it.name, val |-> it.val,
                                          sub |-> sub.fields]>> \o rest.fields]

to_bson(d) == DecodeItems(RawIter(d))

(***************************************************************************)
(* The size accountant.                                                    *)
(***************************************************************************)

\* A size accountant that forgets the null terminator of a string.
str_count_bytes_unterminated(s) == 4 + Len(s)

\* CountBytes for &str: i32 size + characters + null terminator.
str_count_bytes(s) == 4 + Len(s) + 1

\* A size accountant that leaves the length prefix out of a container.
raw_count_bytes_body(d) == Len(d) - 4

\* CountBytes for RawDocument and RawArray: the length of the raw span.
raw_count_bytes(d) == Len(d)

\* CountBytes for RawBsonRef.
count_bytes(v) ==
    CASE v.type = 1 -> 8
      [] v.type = 2 -> str_count_bytes(v.a)
      [] v.type = 4 -> raw_count_bytes(v.a)
      [] v.type = 3 -> raw_count_bytes(v.a)
      [] v.type = 8 -> 1
      [] v.type = 10 -> 0
      [] v.type = 11 -> str_count_bytes(v.a) + str_count_bytes(v.b)
      [] v.type = 13 -> str_count_bytes(v.a)
      [] v.type = 15 -> str_count_bytes(v.a) + raw_count_bytes(v.b)
      [] v.type = 16 -> 4
      [] v.type = 18 -> 8
      [] v.type = 17 -> 8
      [] v.type = 5 -> 4 + 1 + Len(v.a)
      [] v.type = 7 -> 12
      [] v.type = 9 -> 8
      [] v.type = 14 -> str_count_bytes(v.a)
      [] v.type = 19 -> Len(v.a)
      [] v.type = 6 -> 0
      [] v.type = 127 -> 0
      [] v.type = 255 -> 0
      [] v.type = 12 -> str_count_bytes(<<>>) + 12

(***************************************************************************)
(* The output: a sequence of written chunks.  A chunk is one piece of text *)
(* (a JSON rendering or the text of one debug line); writeln! appends the  *)
(* newline chunk NL after it.                                              *)
(***************************************************************************)

Chunk(kind, indent, name, type, size, doc) ==
    [kind |-> kind, indent |-> indent, name |-> name, type |-> type,
     size |-> size, doc |-> doc]

NL == Chunk("nl", <<>>, <<>>, 0, 0, <<>>)

\* A write! in the place of writeln!.
writeln_no_newline(chunk) == <<chunk>>

writeln(chunk) == <<chunk, NL>>

\* "\t".repeat(indent_level)
get_indent(indent_level) == [j \in 1..indent_level |-> 9]

\* Value::into_canonical_extjson and its Display or PrettyFormatter text: the
\* JSON serializer is an external collaborator, its text is kept abstract.
ExtJson(fields, is_pretty) ==
    Chunk(IF is_pretty THEN "pretty_json" ELSE "json", <<>>, <<>>, 0, 0, fields)

\* print_pretty_json: the serializer writes the value and nothing after it.
print_pretty_json(fields) == <<ExtJson(fields, TRUE)>>

(***************************************************************************)
(* The structural debug renderer.  Each operator returns [ok, lines]: the  *)
(* chunks it wrote, and whether it returned Ok; what was written before an *)
(* error stays written.                                                    *)
(***************************************************************************)

\* A header whose size line is not indented past the header line.
print_new_object_header_flat(size, indent_level) ==
    writeln(Chunk("header", get_indent(indent_level), <<>>, 0, 0, <<>>))
      \o writeln(Chunk("size", get_indent(indent_level), <<>>, 0, size, <<>>))

\* print_new_object_header: the header line, then the size line one deeper.
print_new_object_header(size, indent_level) ==
    writeln(Chunk("header", get_indent(indent_level), <<>>, 0, 0, <<>>))
      \o writeln(Chunk("size", get_indent(indent_level + 1), <<>>, 0, size, <<>>))

\* print_debug_document and print_debug_array around their loop: the header
\* of the container, then what the loop over its elements wrote.
print_debug_container(raw, loop, indent_level) ==
    [ok |-> loop.ok,
     lines |-> print_new_object_header(raw_count_bytes(raw), indent_level)
                 \o loop.lines]

\* A print_debug_item that leaves the terminator of the name out of the size.
print_debug_item_short_name(name, bson_ref, indent_level, embedded) ==
    LET size == 1 + Len(name) + count_bytes(bson_ref)
        lines == writeln(Chunk("name", get_indent(indent_level + 2), name, 0, 0, <<>>))
                   \o writeln(Chunk("type", get_indent(indent_level + 3), <<>>,
                                    bson_ref.type, size, <<>>))
    IN  IF bson_ref.type \in {3, 4}
        THEN [ok |-> embedded.ok, lines |-> lines \o embedded.lines]
        ELSE [ok |-> TRUE, lines |-> lines]

\* print_debug_item; embedded is the outcome of the call it makes for an
\* embedded document or array.
print_debug_item(name, bson_ref, indent_level, embedded) ==
    LET size_of_type == 1
        size_of_name == Len(name) + 1
        size == size_of_type + size_of_name + count_bytes(bson_ref)
        lines == writeln(Chunk("name", get_indent(indent_level + 2), name, 0, 0, <<>>))
                   \o writeln(Chunk("type", get_indent(indent_level + 3), <<>>,
                                    bson_ref.type, size, <<>>))
    IN  IF bson_ref.type \in {3, 4}
        THEN [ok |-> embedded.ok, lines |-> lines \o embedded.lines]
        ELSE [ok |-> TRUE, lines |-> lines]

\* The loop over the elements of a container, from its i-th element on:
\* `for element in raw_document` names each element by its key, and
\* `for (i, element) in array.into_iter().enumerate()` by i.to_string().
RECURSIVE ElementLoop(_, _, _, _)
ElementLoop(items, i, is_array, indent_level) ==
    IF items = <<>> THEN [ok |-> TRUE, lines |-> <<>>]
    ELSE IF ~Head(items).ok THEN [ok |-> FALSE, lines |-> <<>>]
    ELSE LET name == IF is_array THEN to_string(i) ELSE Head(items).name
             bson_ref == Head(items).val
             embedded ==
                 print_debug_container(
                     bson_ref.a,
                     ElementLoop(RawIter(bson_ref.a), 0, bson_ref.type = 4,
                                 indent_level + 3),
                     indent_level + 3)
             first == print_debug_item(name, bson_ref, indent_level, embedded)
         IN  IF ~first.ok THEN first
             ELSE LET rest == ElementLoop(Tail(items), i + 1, is_array, indent_level)
                  IN  [ok |-> rest.ok, lines |-> first.lines \o rest.lines]

print_debug_document(raw_document, indent_level) ==
    print_debug_container(raw_document,
                          ElementLoop(RawIter(raw_document), 0, FALSE, indent_level),
                          indent_level)

(***************************************************************************)
(* The record reader.                                                      *)
(***************************************************************************)

Error(kind, size, text) ==
    [kind |-> kind, max |-> MAX_BSON_SIZE, size |-> size, text |-> text]
NoError == Error("none", <<>>, "")

\* BsonSizeError { size, message }, displayed with MAX_BSON_SIZE.
BsonSizeError(size, message) == Error("BsonSizeError", size, message)

IoUnexpectedEof == Error("io", <<>>, "UnexpectedEof")
IoOther == Error("io", <<>>, "Other")
RawError == Error("raw", <<>>, "malformed")
DecodeError == Error("decode", <<>>, "malformed")

ItemNone == [tag |-> "None", buf |-> <<>>, err |-> NoError]
ItemErr(e) == [tag |-> "Err", buf |-> <<>>, err |-> e]
ItemOk(bytes) == [tag |-> "Ok", buf |-> bytes, err |-> NoError]

\* RawDocumentBufs::next on the source s read up to position p, when the
\* source raises no I/O error of its own: [item, pos].
RawDocumentBufs_next(s, p) ==
    IF Len(s) - p < 4
    THEN [item |-> ItemNone, pos |-> Len(s)]
    ELSE LET bson_size == AsUsize(FromLeBytes(s, p + 1))
         IN  IF UsizeLess(bson_size, AsUsize(MIN_BSON_SIZE))
             THEN [item |-> ItemErr(BsonSizeError(bson_size, "Too small nelly")),
                   pos |-> p + 4]
             ELSE IF UsizeLess(AsUsize(MAX_BSON_SIZE), bson_size)
             THEN [item |-> ItemErr(BsonSizeError(bson_size, "Woah nelly")),
                   pos |-> p + 4]
             ELSE LET remainder == FromLeBytes(s, p + 1) - 4
                  IN  IF Len(s) - (p + 4) < remainder
                      THEN [item |-> ItemErr(IoUnexpectedEof), pos |-> Len(s)]
                      ELSE LET bytes == SubSeq(s, p + 1, p + 4)
                                          \o SubSeq(s, p + 5, p + 4 + remainder)
                           IN  [item |-> IF from_bytes(bytes) THEN ItemOk(bytes)
                                         ELSE ItemErr(RawError),
                                pos |-> p + 4 + remainder]

(***************************************************************************)
(* Input streams: up to MaxDocs records, then a tail.                      *)
(***************************************************************************)

I32(n) == <<n % 256, (n \div 256) % 256, (n \div 65536) % 256,
            (n \div 16777216) % 256>>
Str(s) == I32(Len(s) + 1) \o s \o <<0>>
Elem(t, name, payload) == <<t>> \o name \o <<0>> \o payload
Doc(elems) == I32(Len(Concat(elems)) + 5) \o Concat(elems) \o <<0>>
Zeros(n) == [j \in 1..n |-> 0]

EmptyDoc == Doc(<<>>)
\* {"a": "hi"}
HiDoc == Doc(<<Elem(2, <<97>>, Str(<<104, 105>>))>>)
\* An array of eleven elements: an empty document, then ten nulls.
ElevenArray ==
    Doc(<<Elem(3, to_string(0), EmptyDoc)>>
          \o [j \in 1..10 |-> Elem(10, to_string(j), <<>>)])
\* One field of every element type.
AllTypesDoc ==
    Doc(<< Elem(1, <<100>>, Zeros(8)),
           Elem(2, <<115>>, Str(<<104, 105>>)),
           Elem(3, <<111>>, Doc(<<Elem(16, <<120>>, I32(7))>>)),
           Elem(4, <<114>>, ElevenArray),
           Elem(5, <<98>>, I32(2) \o <<0>> \o <<1, 2>>),
           Elem(6, <<117>>, <<>>),
           Elem(7, <<105>>, Zeros(12)),
           Elem(8, <<116>>, <<1>>),
           Elem(9, <<68>>, Zeros(8)),
           Elem(10, <<110>>, <<>>),
           Elem(11, <<120>>, <<97, 98, 0, 105, 0>>),
           Elem(12, <<112>>, Str(<<100, 46, 99>>) \o Zeros(12)),
           Elem(13, <<106>>, Str(<<102>>)),
           Elem(14, <<121>>, Str(<<115, 121>>)),
           Elem(15, <<119>>, I32(4 + 6 + 5) \o Str(<<102>>) \o EmptyDoc),
           Elem(16, <<73>>, I32(1)),
           Elem(17, <<84>>, Zeros(8)),
           Elem(18, <<76>>, Zeros(8)),
           Elem(19, <<69>>, Zeros(16)),
           Elem(255, <<109>>, <<>>),
           Elem(127, <<77>>, <<>>) >>)
\* One field of every element type but regular expression, DB pointer and
\* code with scope.
PlainTypesDoc ==
    Doc(<< Elem(1, <<100>>, Zeros(8)),
           Elem(2, <<115>>, Str(<<104, 105>>)),
           Elem(3, <<111>>, Doc(<<Elem(16, <<120>>, I32(7))>>)),
           Elem(4, <<114>>, ElevenArray),
           Elem(5, <<98>>, I32(2) \o <<0>> \o <<1, 2>>),
           Elem(6, <<117>>, <<>>),
           Elem(7, <<105>>, Zeros(12)),
           Elem(8, <<116>>, <<1>>),
           Elem(9, <<68>>, Zeros(8)),
           Elem(10, <<110>>, <<>>),
           Elem(13, <<106>>, Str(<<102>>)),
           Elem(14, <<121>>, Str(<<115, 121>>)),
           Elem(16, <<73>>, I32(1)),
           Elem(17, <<84>>, Zeros(8)),
           Elem(18, <<76>>, Zeros(8)),
           Elem(19, <<69>>, Zeros(16)),
           Elem(255, <<109>>, <<>>),
           Elem(127, <<77>>, <<>>) >>)
\* {"b": <binary of the old subtype 2 holding 01 02>,
\*  "r": <array whose two elements are keyed "x" and "yy" on the wire>}
OddDoc ==
    Doc(<< Elem(5, <<98>>, I32(6) \o <<2>> \o I32(2) \o <<1, 2>>),
           Elem(4, <<114>>, Doc(<< Elem(10, <<120>>, <<>>),
                                   Elem(8, <<121, 121>>, <<1>>) >>)) >>)
\* A record whose last byte is not the null terminator.
BadTailDoc == <<5, 0, 0, 0, 1>>
\* {"a": 1, "o": {<element of unknown type 99>}}
BadElemDoc ==
    Doc(<<Elem(16, <<97>>, I32(1)), Elem(3, <<111>>, Doc(<< <<99, 98, 0>> >>))>>)

\* The records that streams repeat, and the ones that a stream holds once.
Records == {EmptyDoc, HiDoc, BadTailDoc, BadElemDoc}
RichRecords == {AllTypesDoc, PlainTypesDoc, OddDoc}

Tails ==
    { <<>>,
      <<5>>, <<5, 0>>, <<5, 0, 0>>,
      I32(4) \o EmptyDoc,
      I32(0),
      I32(-1) \o EmptyDoc,
      I32(MAX_BSON_SIZE + 1) \o EmptyDoc,
      I32(MAX_BSON_SIZE),
      SubSeq(HiDoc, 1, 6) }

RecordSeqs == UNION {[1..n -> Records] : n \in 0..MaxDocs}

Streams ==
    {Concat(rs) \o t : rs \in RecordSeqs, t \in Tails}
      \cup {h \o r \o t : h \in {<<>>, HiDoc}, r \in RichRecords, t \in Tails}

(***************************************************************************)
(* The dispatcher BsonDump.                                                *)
(***************************************************************************)

VARIABLES
    stream,     \* reader: the bytes of the source
    pos,        \* reader: the number of bytes consumed
    objcheck,
    num_found,
    out,        \* writer: the chunks written
    flushed,    \* writer: the number of flush calls
    mode,       \* the entry point called: "json", "pretty_json" or "debug"
    pc,         \* "new", "next", "body", "flush" or "done"
    item,       \* the item the iterator yielded to the loop body
    result      \* what the entry point returned

vars == <<stream, pos, objcheck, num_found, out, flushed, mode, pc, item, result>>

NoResult == [tag |-> "none", num_found |-> 0, message |-> NoError]
Ok(n) == [tag |-> "Ok", num_found |-> n, message |-> NoError]

\* A to_bsondump_error that reports a count of zero.
to_bsondump_error_zero(n, e) == [tag |-> "Err", num_found |-> 0, message |-> e]

\* to_bsondump_error, as the Err that json, pretty_json and debug return.
to_bsondump_error(n, e) == [tag |-> "Err", num_found |-> n, message |-> e]

\* BsonDump::new
Init ==
    /\ stream \in Streams
    /\ objcheck \in BOOLEAN
    /\ pos = 0
    /\ num_found = 0
    /\ out = <<>>
    /\ flushed = 0
    /\ mode = "none"
    /\ pc = "new"
    /\ item = ItemNone
    /\ result = NoResult

\* The entry of print_json or print_debug.
Enter(m) ==
    /\ mode' = m
    /\ num_found' = 0
    /\ pc' = "next"
    /\ UNCHANGED <<stream, pos, objcheck, out, flushed, item, result>>

json ==
    /\ pc = "new"
    /\ Enter("json")

pretty_json ==
    /\ pc = "new"
    /\ Enter("pretty_json")

debug ==
    /\ pc = "new"
    /\ Enter("debug")

\* The for loop asks the iterator for its next item.
next ==
    /\ pc = "next"
    /\ LET r == RawDocumentBufs_next(stream, pos)
       IN  /\ item' = r.item
           /\ pos' = r.pos
           /\ pc' = IF r.item.tag = "None" THEN "flush" ELSE "body"
    /\ UNCHANGED <<stream, objcheck, num_found, out, flushed, mode, result>>

\* The source fails with an I/O error other than end of file: in the read
\* of the prefix, or in the read of the body of a record of accepted size.
next_io_error ==
    /\ pc = "next"
    /\ \E in_body \in BOOLEAN :
         /\ in_body => /\ Len(stream) - pos >= 4
                       /\ RawDocumentBufs_next(stream, pos).item.err.kind
                            # "BsonSizeError"
         /\ pos' = IF in_body THEN pos + 4 ELSE pos
    /\ item' = ItemErr(IoOther)
    /\ pc' = "body"
    /\ UNCHANGED <<stream, objcheck, num_found, out, flushed, mode, result>>

\* One pass of the loop body of print_json.
print_json_body ==
    /\ pc = "body"
    /\ mode \in {"json", "pretty_json"}
    /\ IF item.tag = "Err"
       THEN /\ result' = to_bsondump_error(num_found, item.err)
            /\ pc' = "done"
            /\ UNCHANGED <<num_found, out>>
       ELSE LET value == to_bson(item.buf)
            IN  IF ~value.ok
                THEN IF ~objcheck
                     THEN /\ pc' = "next"
                          /\ UNCHANGED <<num_found, out, result>>
                     ELSE /\ result' = to_bsondump_error(num_found, DecodeError)
                          /\ pc' = "done"
                          /\ UNCHANGED <<num_found, out>>
                ELSE /\ out' = out \o (IF mode = "pretty_json"
                                       THEN print_pretty_json(value.fields)
                                       ELSE writeln(ExtJson(value.fields, FALSE)))
                     /\ num_found' = num_found + 1
                     /\ pc' = "next"
                     /\ UNCHANGED result
    /\ UNCHANGED <<stream, pos, objcheck, flushed, mode, item>>

\* One pass of the loop body of print_debug.
print_debug_body ==
    /\ pc = "body"
    /\ mode = "debug"
    /\ IF item.tag = "Err"
       THEN /\ result' = to_bsondump_error(num_found, item.err)
            /\ pc' = "done"
            /\ UNCHANGED <<num_found, out>>
       ELSE LET r == print_debug_document(item.buf, 0)
            IN  /\ out' = out \o r.lines
                /\ IF ~r.ok
                   THEN IF ~objcheck
                        THEN /\ pc' = "next"
                             /\ UNCHANGED <<num_found, result>>
                        ELSE /\ result' = to_bsondump_error(num_found, DecodeError)
                             /\ pc' = "done"
                             /\ UNCHANGED num_found
                   ELSE /\ num_found' = num_found + 1
                        /\ pc' = "next"
                        /\ UNCHANGED result
    /\ UNCHANGED <<stream, pos, objcheck, flushed, mode, item>>

\* After the loop: self.writer.flush(), then Ok(self.num_found).
flush ==
    /\ pc = "flush"
    /\ flushed' = flushed + 1
    /\ result' = Ok(num_found)
    /\ pc' = "done"
    /\ UNCHANGED <<stream, pos, objcheck, num_found, out, mode, item>>

Next ==
    \/ json
    \/ pretty_json
    \/ debug
    \/ next
    \/ next_io_error
    \/ print_json_body
    \/ print_debug_body
    \/ flush

Spec == Init /\ [][Next]_vars

(***************************************************************************)
(* The reader and the dispatcher of src/src/bsondump.rs, which holds the   *)
(* whole program in one file: its RawDocumentBufs::next reads the          *)
(* remainder of a record without a check of the declared length, and its   *)
(* print_json and print_debug unwrap the item of the iterator.  A panic    *)
(* ends the run at pc = "panic" with no result.                            *)
(***************************************************************************)

I32_MAX == 2147483647

Panic(text) == [tag |-> "Panic", buf |-> <<>>, err |-> Error("panic", <<>>, text)]

\* RawDocumentBufs::next of bsondump.rs on the source s read up to position
\* p, when the source raises no I/O error of its own: [item, pos].  With
\* overflow checks `length - buf.len()` panics for a length below 4;
\* without them it wraps, and vec! panics on a capacity beyond isize::MAX,
\* as it does for a negative declared length.
bsondump_RawDocumentBufs_next(s, p, overflow_checks) ==
    IF Len(s) - p < 4
    THEN [item |-> ItemNone, pos |-> Len(s)]
    ELSE LET length == AsUsize(FromLeBytes(s, p + 1))
         IN  IF UsizeLess(length, AsUsize(4))
             THEN [item |-> IF overflow_checks
                            THEN Panic("attempt to subtract with overflow")
                            ELSE Panic("capacity overflow"),
                   pos |-> p + 4]
             ELSE IF UsizeLess(AsUsize(I32_MAX), length)
             THEN [item |-> Panic("capacity overflow"), pos |-> p + 4]
             ELSE LET remainder == FromLeBytes(s, p + 1) - 4
                  IN  IF Len(s) - (p + 4) < remainder
                      THEN [item |-> ItemErr(IoUnexpectedEof), pos |-> Len(s)]
                      ELSE LET bytes == SubSeq(s, p + 1, p + 4)
                                          \o SubSeq(s, p + 5, p + 4 + remainder)
                           IN  [item |-> IF from_bytes(bytes) THEN ItemOk(bytes)
                                         ELSE ItemErr(RawError),
                                pos |-> p + 4 + remainder]

\* The for loop of bsondump.rs asks the iterator for its next item.
bsondump_next ==
    /\ pc = "next"
    /\ \E overflow_checks \in BOOLEAN :
         LET r == bsondump_RawDocumentBufs_next(stream, pos, overflow_checks)
         IN  /\ item' = r.item
             /\ pos' = r.pos
             /\ pc' = CASE r.item.tag = "None" -> "flush"
                        [] r.item.tag = "Panic" -> "panic"
                        [] OTHER -> "body"
    /\ UNCHANGED <<stream, objcheck, num_found, out, flushed, mode, result>>

\* The source fails with an I/O error other than end of file: in the read
\* of the prefix, or in the read of the remainder once it was allocated.
bsondump_next_io_error ==
    /\ pc = "next"
    /\ \E in_body \in BOOLEAN :
         /\ in_body => /\ Len(stream) - pos >= 4
                       /\ bsondump_RawDocumentBufs_next(stream, pos, TRUE).item.tag
                            # "Panic"
         /\ pos' = IF in_body THEN pos + 4 ELSE pos
    /\ item' = ItemErr(IoOther)
    /\ pc' = "body"
    /\ UNCHANGED <<stream, objcheck, num_found, out, flushed, mode, result>>

\* raw_document_buf.unwrap() on an Err item.
unwrap_panic ==
    /\ item' = Panic("called Result::unwrap() on an Err value")
    /\ pc' = "panic"
    /\ UNCHANGED <<stream, pos, objcheck, num_found, out, flushed, mode, result>>

\* One pass of the loop body of print_json of bsondump.rs.
bsondump_print_json_body ==
    /\ pc = "body"
    /\ mode \in {"json", "pretty_json"}
    /\ IF item.tag = "Err" THEN unwrap_panic ELSE print_json_body

\* One pass of the loop body of print_debug of bsondump.rs.
bsondump_print_debug_body ==
    /\ pc = "body"
    /\ mode = "debug"
    /\ IF item.tag = "Err" THEN unwrap_panic ELSE print_debug_body

bsondump_Next ==
    \/ json
    \/ pretty_json
    \/ debug
    \/ bsondump_next
    \/ bsondump_next_io_error
    \/ bsondump_print_json_body
    \/ bsondump_print_debug_body
    \/ flush

SpecBsondump == Init /\ [][bsondump_Next]_vars

(***************************************************************************)
(* What the streams hold, for the statements below.                        *)
(***************************************************************************)

\* The whole records at the head of s, cut at their declared lengths.
RECURSIVE Frames(_)
Frames(s) ==
    IF Len(s) < 4 THEN <<>>
    ELSE LET n == FromLeBytes(s, 1)
         IN  IF n < 5 \/ n > Len(s) THEN <<>>
             ELSE <<SubSeq(s, 1, n)>> \o Frames(SubSeq(s, n + 1, Len(s)))

\* The records of fs that lie within the first p bytes.
RECURSIVE FramesUpTo(_, _)
FramesUpTo(fs, p) ==
    IF fs = <<>> \/ Len(Head(fs)) > p THEN <<>>
    ELSE <<Head(fs)>> \o FramesUpTo(Tail(fs), p - Len(Head(fs)))

Consumed == FramesUpTo(Frames(stream), pos)

\* A record that is a well-formed document at every depth.
IsValidDoc(d) == from_bytes(d) /\ to_bson(d).ok

Valid(fs) == SelectSeq(fs, IsValidDoc)

\* The stream is a run of whole records and nothing else.
WholeRecords == Len(Concat(Frames(stream))) = Len(stream)

\* The complete rendering of a valid document in mode m.
Rendering(m, d) ==
    CASE m = "json" -> writeln(ExtJson(to_bson(d).fields, FALSE))
      [] m = "pretty_json" -> print_pretty_json(to_bson(d).fields)
      [] OTHER -> print_debug_document(d, 0).lines

Renderings(m, fs) == Concat([k \in 1..Len(fs) |-> Rendering(m, fs[k])])

\* The source raised an I/O error of its own in the last read.
SourceFailed == item.err = IoOther

(***************************************************************************)
(* C1. With objcheck off, a stream of whole records in which exactly one   *)
(* record is corrupt (it fails buffer validation or element decoding) and  *)
(* sits between valid records is processed to the end: the run returns Ok  *)
(* with a count of all the valid records, and in the JSON modes the output *)
(* is the renderings of the valid records.                                 *)
(***************************************************************************)
Sandwich ==
    /\ WholeRecords
    /\ Len(Frames(stream)) >= 3
    /\ Len(Valid(Frames(stream))) = Len(Frames(stream)) - 1
    /\ IsValidDoc(Head(Frames(stream)))
    /\ IsValidDoc(Frames(stream)[Len(Frames(stream))])

\* C1: objcheck off, one corrupt record between valid ones: Ok, all valid counted.
C1_CorruptSkipped ==
    (pc = "done" /\ ~objcheck /\ ~SourceFailed /\ Sandwich)
      => /\ result.tag = "Ok"
         /\ result.num_found = Len(Frames(stream)) - 1
         /\ mode # "debug" => out = Renderings(mode, Valid(Frames(stream)))

(***************************************************************************)
(* C2. A fatal failure ends the run at once.  An error item of the reader  *)
(* (I/O error, size-bound violation, truncated body) and, with objcheck    *)
(* on, a record that fails to decode make the entry point return an Err    *)
(* that carries the number of valid records before the failing one; a run  *)
(* that returned takes no further step; and a run returns Ok only when no  *)
(* such failure was in the stream.                                         *)
(***************************************************************************)
C2_FatalStopsRun ==
    /\ item.tag = "Err" => pc \in {"body", "done"}
    /\ pc = "done" => ~ENABLED Next
    /\ (pc = "done" /\ item.tag = "Err")
         => /\ result.tag = "Err"
            /\ result.num_found = Len(Valid(Consumed))
            /\ result.message = item.err
    /\ (pc = "done" /\ item.tag = "Ok")
         => /\ objcheck
            /\ ~IsValidDoc(item.buf)
            /\ result.tag = "Err"
            /\ result.num_found = Len(Valid(Consumed))
    /\ (pc = "done" /\ result.tag = "Ok")
         => /\ item.tag = "None"
            /\ Len(stream) - Len(Concat(Frames(stream))) < 4
            /\ \A k \in 1..Len(Frames(stream)) :
                 /\ from_bytes(Frames(stream)[k])
                 /\ objcheck => IsValidDoc(Frames(stream)[k])

\* The second record is cut off in its body, objcheck is on: Err with count 1.
C2_Witness ==
    /\ pc = "done"
    /\ objcheck
    /\ stream = HiDoc \o SubSeq(HiDoc, 1, 6)
    /\ item.err = IoUnexpectedEof
    /\ result.tag = "Err"
    /\ result.num_found = 1
    /\ out = Rendering(mode, HiDoc)

(***************************************************************************)
(* C3. Between two passes of the loop and at the end of a run, the output  *)
(* is exactly the complete renderings of the records counted in num_found: *)
(* a record that was skipped or that caused the fatal error left no chunk  *)
(* in the output.                                                          *)
(***************************************************************************)
C3_OnlyCompleteRenderings ==
    (pc \in {"next", "flush", "done"} /\ mode # "none")
      => /\ num_found = Len(Valid(Consumed))
         /\ out = Renderings(mode, Valid(Consumed))

(***************************************************************************)
(* C4. The read of a length prefix ends the sequence only when no byte of  *)
(* the source is left; when 1, 2 or 3 bytes are left the reader yields an  *)
(* error item.                                                             *)
(***************************************************************************)
C4_CleanEndOnlyAtZeroBytes ==
    [][/\ (pc = "next" /\ pc' = "flush") => pos = Len(stream)
       /\ (pc = "next" /\ Len(stream) - pos \in 1..3)
            => (pc' = "body" /\ item'.tag = "Err")]_vars

(***************************************************************************)
(* C5. A declared length L below 5, negative values included, makes the    *)
(* reader yield the too-small error, a length above MAX_BSON_SIZE the      *)
(* too-large error; either error carries L and the maximum, no body byte   *)
(* is read, and the run stops with the count as it was.  A length within   *)
(* the bounds raises no size error.                                        *)
(***************************************************************************)
SizeErrorFor(L) ==
    [kind |-> "BsonSizeError", max |-> 16793600,
     size |-> <<L % 65536, L \div 65536, 0, 0>>,
     text |-> IF L < 5 THEN "Too small nelly" ELSE "Woah nelly"]

\* C5: L < 5 is too small, L > maximum is too large, the error carries L.
C5_SizeBounds ==
    [][/\ (pc = "next" /\ Len(stream) - pos >= 4 /\ item' # ItemErr(IoOther))
            => LET L == FromLeBytes(stream, pos + 1)
               IN  IF L < 5 \/ L > 16793600
                   THEN item' = ItemErr(SizeErrorFor(L)) /\ pos' = pos + 4
                   ELSE item'.err.kind # "BsonSizeError"
       /\ (pc = "body" /\ item.err.kind = "BsonSizeError")
            => /\ pc' = "done"
               /\ result'.tag = "Err"
               /\ result'.num_found = num_found
               /\ out' = out]_vars

(***************************************************************************)
(* C6. In JSON mode the count is the number of renderings written, each    *)
(* followed by one newline; for a stream of N valid records the run        *)
(* returns Ok with count N and the output is N lines, the i-th being the   *)
(* rendering of the i-th record.                                           *)
(***************************************************************************)
CountKind(chunks, kind) ==
    Cardinality({k \in 1..Len(chunks) : chunks[k].kind = kind})

AllValid ==
    /\ WholeRecords
    /\ \A k \in 1..Len(Frames(stream)) : IsValidDoc(Frames(stream)[k])

\* C6: JSON mode writes one line per valid record, in order, and counts each once.
C6_JsonLines ==
    mode = "json"
      => /\ num_found = CountKind(out, "json")
         /\ num_found = CountKind(out, "nl")
         /\ (pc = "done" /\ AllValid /\ ~SourceFailed)
              => /\ result.tag = "Ok"
                 /\ result.num_found = Len(Frames(stream))
                 /\ Len(out) = 2 * Len(Frames(stream))
                 /\ \A i \in 1..Len(Frames(stream)) :
                      /\ out[2 * i - 1].kind = "json"
                      /\ out[2 * i - 1].doc = to_bson(Frames(stream)[i]).fields
                      /\ out[2 * i].kind = "nl"

\* Three valid records, three lines, Ok(3).
C6_Witness ==
    /\ mode = "json"
    /\ pc = "done"
    /\ stream = HiDoc \o EmptyDoc \o HiDoc
    /\ result.tag = "Ok"
    /\ result.num_found = 3
    /\ Len(out) = 6

(***************************************************************************)
(* C7. In pretty-JSON mode every rendering in the output is followed by a  *)
(* newline.                                                                *)
(***************************************************************************)
C7_PrettyNewline ==
    mode = "pretty_json"
      => \A k \in 1..Len(out) :
           out[k].kind = "pretty_json" => (k < Len(out) /\ out[k + 1].kind = "nl")

(***************************************************************************)
(* C8. A buffer the reader yields has the declared length L of its record  *)
(* and is the next L bytes of the stream, the position advances by L and   *)
(* is the sum of the declared lengths of the records read so far, and the  *)
(* size line the debug renderer writes for the document shows L.           *)
(***************************************************************************)
RECURSIVE SumDeclared(_)
SumDeclared(fs) ==
    IF fs = <<>> THEN 0 ELSE FromLeBytes(Head(fs), 1) + SumDeclared(Tail(fs))

\* C8: a yielded buffer has its declared length L, L bytes were consumed, debug shows L.
C8_RecordLength ==
    [][/\ (pc = "next" /\ item'.tag = "Ok")
            => LET L == FromLeBytes(stream, pos + 1)
               IN  /\ Len(item'.buf) = L
                   /\ item'.buf = SubSeq(stream, pos + 1, pos + L)
                   /\ pos' = pos + L
                   /\ pos' = SumDeclared(FramesUpTo(Frames(stream), pos'))
       /\ (pc = "body" /\ mode = "debug" /\ item.tag = "Ok")
            => /\ out'[Len(out) + 1].kind = "header"
               /\ out'[Len(out) + 3].kind = "size"
               /\ out'[Len(out) + 3].size = FromLeBytes(item.buf, 1)]_vars

\* The second record of 15 bytes was read after one of 5 and rendered.
C8_Witness ==
    /\ mode = "debug"
    /\ pc = "next"
    /\ item.tag = "Ok"
    /\ item.buf = HiDoc
    /\ pos = 20
    /\ num_found = 2
    /\ out[7].kind = "size"
    /\ out[7].size = 15

(***************************************************************************)
(* C9. count_bytes gives every value the size of the per-type table.       *)
(***************************************************************************)
\* The values of a container at every depth, through documents and arrays.
RECURSIVE ValuesOf(_)
ValuesOf(items) ==
    IF items = <<>> \/ ~Head(items).ok THEN {}
    ELSE {Head(items).val}
           \cup (IF Head(items).val.type \in {3, 4}
                 THEN ValuesOf(RawIter(Head(items).val.a)) ELSE {})
           \cup ValuesOf(Tail(items))

TableSize(v) ==
    CASE v.type \in {1, 9, 18, 17} -> 8
      [] v.type = 16 -> 4
      [] v.type = 8 -> 1
      [] v.type \in {10, 6, 255, 127} -> 0
      [] v.type = 7 -> 12
      [] v.type = 19 -> 16
      [] v.type \in {2, 14, 13} -> 4 + Len(v.a) + 1
      [] v.type = 5 -> 4 + 1 + Len(v.a)
      [] v.type \in {3, 4} -> Len(v.a)
      [] v.type = 11 -> (4 + Len(v.a) + 1) + (4 + Len(v.b) + 1)
      [] v.type = 15 -> (4 + Len(v.a) + 1) + Len(v.b)
      [] v.type = 12 -> 5 + 12

\* C9: count_bytes equals the per-type table on every value.
C9_SizeTable ==
    item.tag = "Ok"
      => \A v \in ValuesOf(RawIter(item.buf)) : count_bytes(v) = TableSize(v)

\* The debug renderer has walked a document with a value of every type.
C9_Witness ==
    /\ mode = "debug"
    /\ pc = "next"
    /\ num_found = 1
    /\ item.tag = "Ok"
    /\ {v.type : v \in ValuesOf(RawIter(item.buf))} = ElementTypes
    /\ \E k \in 1..Len(out) : out[k].type = 15 /\ out[k].size = 1 + 2 + 6 + 5
    /\ \E k \in 1..Len(out) : out[k].type = 11 /\ out[k].size = 1 + 2 + 7 + 6

(***************************************************************************)
(* C10. The size on a field's type/size line is 1 + the byte length of the *)
(* name + 1 + count_bytes of the value; the name of an array element is    *)
(* its position in decimal; for {"a": "hi"} the size printed for a is 10.  *)
(***************************************************************************)
Decimal(i) == IF i < 10 THEN <<48 + i>> ELSE <<48 + (i \div 10), 48 + (i % 10)>>

\* The <<name, type, size>> of every field of a container, in walk order.
RECURSIVE FieldLines(_, _, _)
FieldLines(items, i, is_array) ==
    IF items = <<>> \/ ~Head(items).ok THEN <<>>
    ELSE LET v == Head(items).val
             name == IF is_array THEN Decimal(i) ELSE Head(items).name
         IN  <<<<name, v.type, 1 + Len(name) + 1 + count_bytes(v)>>>>
               \o (IF v.type \in {3, 4}
                   THEN FieldLines(RawIter(v.a), 0, v.type = 4) ELSE <<>>)
               \o FieldLines(Tail(items), i + 1, is_array)

\* The <<name, type, size>> that the type/size lines of chunks show, each
\* with the name line written before it.
Printed(chunks) ==
    LET at == SelectSeq([k \in 1..Len(chunks) |-> k],
                        LAMBDA k : chunks[k].kind = "type")
    IN  [j \in 1..Len(at) |->
           <<chunks[at[j] - 2].name, chunks[at[j]].type, chunks[at[j]].size>>]

\* C10: a field's printed size is 1 + name length + 1 + count_bytes of its value.
C10_FieldSize ==
    [][(pc = "body" /\ mode = "debug" /\ num_found' = num_found + 1)
         => LET written == SubSeq(out', Len(out) + 1, Len(out'))
            IN  /\ Printed(written) = FieldLines(RawIter(item.buf), 0, FALSE)
                /\ item.buf = HiDoc => Printed(written) = << <<<<97>>, 2, 10>> >>]_vars

\* Element 10 of an array was written with its two-byte name.
C10_Witness ==
    /\ mode = "debug"
    /\ pc = "next"
    /\ num_found = 1
    /\ \E k \in 1..Len(out) :
         /\ out[k].kind = "name"
         /\ out[k].name = <<49, 48>>
         /\ out[k + 2].kind = "type"
         /\ out[k + 2].type = 10
         /\ out[k + 2].size = 4

(***************************************************************************)
(* C11. A debug run that reaches the end of the stream appends one final   *)
(* summary line reporting the number of documents processed, which is the  *)
(* count it returns; three empty documents give three blocks of size 5 and *)
(* then the summary of 3.                                                  *)
(***************************************************************************)
\* The chunks of a sequence that are not line ends.
Lines(chunks) == SelectSeq(chunks, LAMBDA c : c.kind # "nl")

\* C11: a debug run that returns Ok has written a last line that is the
\* summary of the count returned.
C11_SummaryLine ==
    (mode = "debug" /\ pc = "done" /\ result.tag = "Ok")
      => /\ Lines(out) # <<>>
         /\ Lines(out)[Len(Lines(out))].kind = "summary"
         /\ Lines(out)[Len(Lines(out))].size = result.num_found
         /\ out[Len(out)] = NL
         /\ CountKind(out, "summary") = 1

(***************************************************************************)
(* C12. The sizes of the debug trace are exact wire sizes: for every       *)
(* rendered document and every document or array nested in it, 4 + the sum *)
(* of the sizes printed for its direct fields + 1 is the size printed in   *)
(* its 'new object' block, whatever the types of the fields.               *)
(***************************************************************************)
\* The positions of the headers in a trace.
Headers(chunks) ==
    SelectSeq([k \in 1..Len(chunks) |-> k], LAMBDA k : chunks[k].kind = "header")

\* The position after the block of the container whose header is at h: the
\* next line that is indented less, or the next header that is not deeper.
BlockEnd(chunks, h) ==
    LET k == Len(chunks[h].indent)
        closes(j) == /\ chunks[j].kind # "nl"
                     /\ \/ Len(chunks[j].indent) < k
                        \/ chunks[j].kind = "header" /\ Len(chunks[j].indent) <= k
        later == {j \in (h + 1)..Len(chunks) : closes(j)}
    IN  IF later = {} THEN Len(chunks) + 1
        ELSE CHOOSE j \in later : \A i \in later : j <= i

\* The sum of the sizes on the type/size lines at indent ind among
\* chunks[lo .. hi], halving the range.
RECURSIVE SumDirect(_, _, _, _)
SumDirect(chunks, lo, hi, ind) ==
    IF lo > hi THEN 0
    ELSE IF lo = hi
         THEN IF chunks[lo].kind = "type" /\ Len(chunks[lo].indent) = ind
              THEN chunks[lo].size ELSE 0
         ELSE LET mid == (lo + hi) \div 2
              IN  SumDirect(chunks, lo, mid, ind) + SumDirect(chunks, mid + 1, hi, ind)

\* The sum of the sizes printed for the direct fields of the container
\* whose header is at h, and the size printed in its block.
PrintedFieldSum(chunks, h) ==
    SumDirect(chunks, h, BlockEnd(chunks, h) - 1, Len(chunks[h].indent) + 3)
PrintedContainerSize(chunks, h) == chunks[h + 2].size

\* The containers of a document in walk order: the document, then each
\* nested document or array before the field that follows it.
RECURSIVE ContainersIn(_)
ContainersIn(items) ==
    IF items = <<>> \/ ~Head(items).ok THEN <<>>
    ELSE LET v == Head(items).val
         IN  (IF v.type \in {3, 4}
              THEN <<[raw |-> v.a, is_array |-> v.type = 4]>>
                     \o ContainersIn(RawIter(v.a))
              ELSE <<>>)
               \o ContainersIn(Tail(items))
Containers(d) == <<[raw |-> d, is_array |-> FALSE]>> \o ContainersIn(RawIter(d))

\* A container none of whose direct fields is a regular expression, a DB
\* pointer, a code with scope or a binary of the old subtype 2, and, for an
\* array, whose elements are keyed on the wire by their decimal positions.
Plain(c) ==
    LET items == RawIter(c.raw)
    IN  \A i \in 1..Len(items) :
          /\ items[i].val.type \notin {11, 12, 15}
          /\ ~(items[i].val.type = 5 /\ items[i].val.b = <<2>>)
          /\ c.is_array => items[i].name = Decimal(i - 1)

\* C12: in the trace of a rendered document every container's printed size
\* is 4 + the sum of the sizes printed for its direct fields + 1.
C12_WireSizes ==
    [][(pc = "body" /\ mode = "debug" /\ num_found' = num_found + 1)
         => LET written == SubSeq(out', Len(out) + 1, Len(out'))
                hs == Headers(written)
            IN  \A j \in 1..Len(hs) :
                  4 + PrintedFieldSum(written, hs[j]) + 1
                    = PrintedContainerSize(written, hs[j])]_vars

\* What does hold: every container's printed size is the length of its raw
\* span, and the printed sizes add up in every container that is Plain.
PlainWireSizes ==
    [][(pc = "body" /\ mode = "debug" /\ num_found' = num_found + 1)
         => LET written == SubSeq(out', Len(out) + 1, Len(out'))
                hs == Headers(written)
                cs == Containers(item.buf)
            IN  /\ Len(hs) = Len(cs)
                /\ \A j \in 1..Len(hs) :
                     /\ PrintedContainerSize(written, hs[j]) = Len(cs[j].raw)
                     /\ Plain(cs[j])
                          => 4 + PrintedFieldSum(written, hs[j]) + 1
                               = PrintedContainerSize(written, hs[j])]_vars

\* The document of eighteen plain fields was rendered, with its nested
\* document, its array and the empty document inside the array.
PlainWireSizesWitness ==
    /\ mode = "debug"
    /\ pc = "next"
    /\ num_found = 1
    /\ item.buf = PlainTypesDoc
    /\ Len(Containers(item.buf)) = 4
    /\ \A j \in 1..4 : Plain(Containers(item.buf)[j])
    /\ Len(Headers(out)) = 4
    /\ PrintedFieldSum(out, 1) = Len(PlainTypesDoc) - 5
    /\ PrintedContainerSize(out, 1) = Len(PlainTypesDoc)

(***************************************************************************)
(* C13. The debug trace of a document is a pre-order walk in wire order:   *)
(* a container at indent k writes its header at k and its size line at     *)
(* k + 1, then for each element in order the name line at k + 2 and the    *)
(* type/size line at k + 3; the whole trace of a nested document or array, *)
(* its header at k + 3, comes right after the element's type/size line and *)
(* before the parent's next name line; an empty container writes its       *)
(* header and its size line and nothing else.                              *)
(***************************************************************************)
\* The walk of the elements of a container at indent k, from element i on:
\* <<kind, indent, name, type>> of every line.
RECURSIVE WalkFields(_, _, _, _)
WalkFields(items, i, is_array, k) ==
    IF items = <<>> \/ ~Head(items).ok THEN <<>>
    ELSE LET v == Head(items).val
             name == IF is_array THEN Decimal(i) ELSE Head(items).name
         IN  << <<"name", k + 2, name, 0>>, <<"type", k + 3, <<>>, v.type>> >>
               \o (IF v.type \in {3, 4}
                   THEN << <<"header", k + 3, <<>>, 0>>, <<"size", k + 4, <<>>, 0>> >>
                          \o WalkFields(RawIter(v.a), 0, v.type = 4, k + 3)
                   ELSE <<>>)
               \o WalkFields(Tail(items), i + 1, is_array, k)

\* The walk of the document d at indent k.
Walk(d, k) ==
    << <<"header", k, <<>>, 0>>, <<"size", k + 1, <<>>, 0>> >>
      \o WalkFields(RawIter(d), 0, FALSE, k)

\* <<kind, indent, name, type>> of every line of a trace.
Shape(chunks) ==
    [j \in 1..Len(Lines(chunks)) |->
       <<Lines(chunks)[j].kind, Len(Lines(chunks)[j].indent),
         Lines(chunks)[j].name, Lines(chunks)[j].type>>]

\* Every chunk at an odd position is a line, followed by its line end.
LineByLine(chunks) ==
    /\ Len(chunks) % 2 = 0
    /\ \A j \in 1..Len(chunks) :
         IF j % 2 = 1 THEN chunks[j].kind # "nl" ELSE chunks[j] = NL

\* C13: the trace written for a rendered document is its pre-order walk at
\* indent 0, line by line; an empty document writes two lines.
C13_PreOrderWalk ==
    [][(pc = "body" /\ mode = "debug" /\ num_found' = num_found + 1)
         => LET written == SubSeq(out', Len(out) + 1, Len(out'))
            IN  /\ LineByLine(written)
                /\ Shape(written) = Walk(item.buf, 0)
                /\ item.buf = EmptyDoc
                     => Shape(written) = << <<"header", 0, <<>>, 0>>,
                                            <<"size", 1, <<>>, 0>> >>]_vars

\* An empty document two containers deep was written: after the type/size
\* line of element 0 of an array, its header at indent 6 and size line at
\* indent 7, and then the name line of element 1 at indent 5.
C13_Witness ==
    /\ mode = "debug"
    /\ pc = "next"
    /\ num_found = 1
    /\ \E k \in 1..Len(out) :
         /\ out[k].kind = "type" /\ out[k].type = 3 /\ Len(out[k].indent) = 6
         /\ out[k + 2].kind = "header" /\ Len(out[k + 2].indent) = 6
         /\ out[k + 4].kind = "size" /\ Len(out[k + 4].indent) = 7
         /\ out[k + 4].size = 5
         /\ out[k + 6].kind = "name" /\ Len(out[k + 6].indent) = 5
         /\ out[k + 6].name = <<49>>

(***************************************************************************)
(* C14. The sink is flushed exactly once in every run, after the last      *)
(* write and never between two documents, whether the run ends at a clean  *)
(* end of the stream or with a fatal error: when the run has returned,     *)
(* every document of the count it reports has been flushed.                *)
(***************************************************************************)
\* C14: no flush before the run returns, one flush when it has returned.
C14_FlushedOnce ==
    /\ pc # "done" => flushed = 0
    /\ pc = "done" => flushed = 1

(***************************************************************************)
(* C15. A run never aborts abnormally on untrusted input: whatever the     *)
(* bytes of the stream (declared lengths 0 to 3, negative lengths, records *)
(* cut short, buffers that fail validation), every call of next returns    *)
(* the end of the sequence, an error item or a document, and json,         *)
(* pretty_json and debug return Ok or Err: nothing panics, 'declared       *)
(* length - 4' does not underflow, and no error item is unwrapped.         *)
(***************************************************************************)
\* C15: no call has panicked, and a run that is over has returned Ok or Err.
C15_NeverAborts ==
    /\ pc # "panic"
    /\ item.tag \in {"None", "Err", "Ok"}
    /\ pc = "done" => result.tag \in {"Ok", "Err"}

====
